---- MODULE Spec2Model ----
(***************************************************************************)
(* Model of frontend/src/App.js (SEOAuditApp): the startup prober          *)
(* wakeUpServer, the pre-submission prober wakeUpServerBeforeAudit, the    *)
(* orchestrator handleAudit with its submission retries sendAuditRequest,  *)
(* and the EventSource streams it opens and closes.                        *)
(*                                                                         *)
(* JavaScript runs one task at a time: every action below is one           *)
(* synchronous stretch of code between two suspension points (an await on  *)
(* a fetch or on a timer, a timer callback, an EventSource callback, a     *)
(* submit event).  Time is not modelled: a pending timer or network call   *)
(* may complete at any later step.                                         *)
(***************************************************************************)
EXTENDS Integers, Sequences, FiniteSets, TLC

\* ------------------------------------------------------------------ bounds
\* handleAudit runs one behaviour of SpecControl may start
MaxJobs == 3
\* handleAudit runs one behaviour of SpecProbers, of SpecAbandon and of
\* SpecProbeLog may start
MaxProbeJobs == 1
\* handleAudit runs one behaviour of SpecStream may start
MaxStreamJobs == 1
\* what the environment injects in one behaviour of SpecStream: failed
\* liveness checks, failed submission requests, frames and channel errors
MaxFaults == 2
\* failed liveness checks and failed submission requests the environment
\* injects in one behaviour of SpecProbeLog
MaxProbeFaults == 4
\* attempt indices the backoff delay is computed for
MaxIndex == 12
\* jobs and delivered frames of SpecHandover
MaxHandoverJobs == 2
MaxHandoverFrames == 2
\* recoverable upstream failures the pipeline of one job meets (SpecPipeline)
MaxStageFailures == 3

\* ------------------------------------------------------- program constants
\* wakeUpServer: const MAX_RETRIES = 5
MAX_RETRIES_STARTUP == 5
\* wakeUpServerBeforeAudit: const MAX_RETRIES = 8
MAX_RETRIES_AUDIT == 8
\* const INITIAL_DELAY = 2000 (both probers), milliseconds
INITIAL_DELAY == 2000
\* const MAX_DELAY = 30000 (both probers), milliseconds
MAX_DELAY == 30000
\* sendAuditRequest = async (attempt = 1, maxAttempts = 3)
maxAttempts == 3

\* ------------------------------------------------------------ pure helpers
RECURSIVE Pow2(_)
Pow2(n) == IF n = 0 THEN 1 ELSE 2 * Pow2(n - 1)

Min(a, b) == IF a <= b THEN a ELSE b

\* Mutant: the cap is left out, INITIAL_DELAY * Math.pow(2, retryCount)
BackoffDelay_uncapped(n) == INITIAL_DELAY * Pow2(n)

\* Mutant: the delay grows linearly, INITIAL_DELAY * (retryCount + 1)
BackoffDelay_linear(n) == Min(INITIAL_DELAY * (n + 1), MAX_DELAY)

\* Mutant: the delay does not grow, Math.min(INITIAL_DELAY, MAX_DELAY)
BackoffDelay_fixed(n) == Min(INITIAL_DELAY, MAX_DELAY)

\* Math.min(INITIAL_DELAY * Math.pow(2, retryCount), MAX_DELAY)
BackoffDelay(n) == Min(INITIAL_DELAY * Pow2(n), MAX_DELAY)

\* A string is a sequence of tokens; "https:" and "http:" stand for the
\* scheme with its colon, "sp" for a white-space character.
Protocols == {"https:", "http:"}

RECURSIVE TrimLeft(_, _)
TrimLeft(s, c) == IF s # <<>> /\ Head(s) = c THEN TrimLeft(Tail(s), c) ELSE s

RECURSIVE TrimRight(_, _)
TrimRight(s, c) ==
    IF s # <<>> /\ s[Len(s)] = c THEN TrimRight(SubSeq(s, 1, Len(s) - 1), c) ELSE s

\* /^https?:\/\//i.test(url)
HasProtocol(s) == Len(s) >= 3 /\ s[1] \in Protocols /\ s[2] = "/" /\ s[3] = "/"

\* url.replace(/^https?:\/\//i, '')
StripProtocol(s) == IF HasProtocol(s) THEN SubSeq(s, 4, Len(s)) ELSE s

Includes(s, c) == \E i \in 1..Len(s) : s[i] = c

normalizeUrl(inputUrl) ==
    LET url == TrimRight(TrimLeft(inputUrl, "sp"), "sp") IN
    IF url = <<>> THEN <<>>
    ELSE IF HasProtocol(url)
         THEN LET u == TrimRight(url, "/") IN
              IF u = <<"https:", "/", "/">> \/ u = <<"http:", "/", "/">> THEN <<>>
              ELSE LET w == StripProtocol(u) IN
                   IF w = <<>> \/ (~Includes(w, ".") /\ Head(w) # "localhost")
                   THEN <<>> ELSE u
         ELSE LET v == TrimRight(TrimLeft(url, "/"), "/") IN
              IF v = <<>> THEN <<>>
              ELSE LET u == <<"https:", "/", "/">> \o v
                       w == StripProtocol(u) IN
                   IF w = <<>> \/ (~Includes(w, ".") /\ Head(w) # "localhost")
                   THEN <<>> ELSE u

\* The two of them SpecProbers and SpecStream draw from: one rejected, one
\* accepted
StreamInputs == { <<"sp">>, <<"a", ".", "a">> }

\* What the user may have typed into the url field when the form is submitted.
Inputs ==
    { <<"sp">>,
      <<"a">>,
      <<"https:", "/", "/">>,
      <<"a", ".", "a">>,
      <<"sp", "https:", "/", "/", "a", ".", "a", "/">>,
      <<"/", "localhost", "/">> }

\* ------------------------------------------------------------------- state
VARIABLES
    \* React state of SEOAuditApp
    loading, error, result, serverWakingUp, wakeUpLogs, retryLogs, sseConnection,
    \* the startup prober, wakeUpServer: where it is suspended, its retryCount,
    \* the milliseconds of the timer it has pending (0: none)
    wakePc, wakeRetryCount, wakeDelay,
    \* the running handleAudit invocation: where it is suspended, its locals,
    \* the milliseconds of the timer it awaits (0: none)
    pc, probeCtx, retryCount, attempt, normalizedUrl, requestId, eventSource,
    capturedSse, delay,
    \* the browser: every EventSource created so far, the pending grace timers
    streams, timers,
    \* history: handleAudit runs started, liveness checks issued by the startup
    \* run and by the latest wakeUpServerBeforeAudit run, what that run
    \* returned, the outcome of every submission request of the latest job,
    \* reconciliations of the latest job, the outcome of the liveness check
    \* that the latest step of the startup run and of the handleAudit run
    \* saw settle ("none": that step saw no check settle)
    jobs, wakeChecks, probeChecks, probeResult, posts, reconCount,
    wakeLast, probeLast,
    \* the body of every submission request the running handleAudit run has
    \* sent, and the liveness checks it has issued (counted where a
    \* specification counts them)
    bodies, jobChecks,
    \* the backend pipeline of the latest job and the progress events it has
    \* emitted
    pipeline, emitted,
    \* environment: how much it has injected so far (failed liveness checks,
    \* failed submission requests, frames and errors of a channel), and the
    \* frames the channels delivered since retryLogs was last cleared, each
    \* with its stream and the onmessage that stream had at that moment
    faults, frameLog,
    \* whether the component is mounted
    mounted

wakeVars == <<wakePc, wakeRetryCount, wakeDelay, serverWakingUp, wakeChecks, wakeLast>>
jobVars == <<pc, probeCtx, retryCount, attempt, normalizedUrl, requestId,
             eventSource, capturedSse, delay>>
uiVars == <<loading, error, result>>
sseVars == <<streams, timers, sseConnection>>
histVars == <<jobs, probeChecks, probeResult, posts, reconCount, probeLast, bodies>>
ctlVars == <<wakeVars, jobVars, uiVars, sseVars, histVars>>
logVars == <<wakeUpLogs, retryLogs>>
envVars == <<faults, frameLog>>
pipeVars == <<pipeline, emitted>>
vars == <<ctlVars, logVars, envVars, mounted, jobChecks, pipeVars>>

NoId == <<"none", 0>>
\* The result state: null, or the body of the successful response
null == [set |-> FALSE, request_id |-> NoId]
Body(rid) == [set |-> TRUE, request_id |-> rid]
\* Mutant: the generator returns the same token for every job
randomUUID_repeats(job) == <<"client", 0>>

\* crypto.randomUUID(), or the Date.now()/Math.random() fallback: a token no
\* other job and no backend has produced
randomUUID(job) == <<"client", job>>
\* an id the backend generated for the job on its own
backendUUID(job) == <<"server", job>>

\* Outcomes of one liveness check: fetch + response.ok + response.json()
PingOutcomes == {"ok", "status", "network", "timeout", "badjson"}
PingHard == {"network", "timeout", "badjson"}
\* Outcomes of one submission request: fetch + response.ok + response.json()
\* ("failed_fetch": a TypeError whose message contains 'Failed to fetch';
\* "network_error": one whose message contains 'Network' instead, as other
\* browsers word it; "abort": the AbortError of the 120 s timer)
PostOutcomes == {"ok", "http", "failed_fetch", "network_error", "abort", "badjson"}

\* ------------------------------------------------------------ log entries
\* One entry of wakeUpLogs or retryLogs: { timestamp, message, type }.  msg
\* names the message template, n the attempt index it prints (0: none), d the
\* wait in milliseconds it prints (0: none).  The timestamp is left out.
Entry(msg, type, n, d) == [msg |-> msg, type |-> type, n |-> n, d |-> d]

\* ------------------------------------------------------------------- Init
\* The component has mounted and its effect has run up to the first await:
\* setWakeUpLogs([]), two addLog calls, wakeUpServer() up to its fetch.
Init ==
    /\ loading = FALSE
    /\ error = "null"
    /\ result = null
    /\ serverWakingUp = TRUE
    /\ wakeUpLogs = << Entry("Initializing backend wake-up sequence", "info", 0, 0),
                       Entry("This may take 30-60 seconds", "info", 0, 0),
                       Entry("Attempting to ping backend server", "info", 1, 0),
                       Entry("Target URL", "info", 0, 0) >>
    /\ retryLogs = <<>>
    /\ sseConnection = 0
    /\ wakePc = "ping"
    /\ wakeRetryCount = 0
    /\ wakeDelay = 0
    /\ wakeLast = "none"
    /\ delay = 0
    /\ probeLast = "none"
    /\ pc = "idle"
    /\ probeCtx = "pre"
    /\ retryCount = 0
    /\ attempt = 0
    /\ normalizedUrl = <<>>
    /\ requestId = NoId
    /\ eventSource = 0
    /\ capturedSse = 0
    /\ streams = <<>>
    /\ timers = {}
    /\ jobs = 0
    /\ wakeChecks = 1
    /\ probeChecks = 0
    /\ jobChecks = 0
    /\ bodies = <<>>
    /\ probeResult = "none"
    /\ posts = <<>>
    /\ reconCount = 0
    /\ faults = 0
    /\ frameLog = <<>>
    /\ mounted = TRUE
    /\ pipeline = [job |-> 0, status |-> "idle", stage |-> 1, attempt |-> 1,
                   retried |-> FALSE, failures |-> 0, delivered |-> 0]
    /\ emitted = <<>>

\* ---------------------------------------------------- wakeUpServer (startup)
\* catch branch: if (retryCount < MAX_RETRIES - 1)
wakeUpServer_mayRetry(n) == n < MAX_RETRIES_STARTUP - 1

\* The fetch of one startup attempt settles with outcome o; the code runs to
\* the next suspension point.  A non-ok status leaves the try block without
\* scheduling another attempt; only the catch branch retries.
wakeUpServer_settles(o) ==
    /\ wakePc = "ping"
    /\ wakePc' = IF o \in PingHard /\ wakeUpServer_mayRetry(wakeRetryCount)
                 THEN "backoff" ELSE "hide_wait"
    /\ wakeDelay' = CASE o = "ok" -> 1000
                       [] o \in PingHard /\ wakeUpServer_mayRetry(wakeRetryCount) ->
                            BackoffDelay(wakeRetryCount)
                       [] OTHER -> 2000
    /\ wakeLast' = o
    /\ UNCHANGED <<wakeRetryCount, serverWakingUp, wakeChecks>>
    /\ UNCHANGED <<jobVars, uiVars, sseVars, histVars>>

wakeUpServer_settles_log(o) ==
    wakeUpLogs \o
    CASE o = "ok" ->
           << Entry("Server responded successfully", "success", 0, 0),
              Entry("Response", "success", 0, 0),
              Entry("Backend server is now awake and ready", "success", 0, 0) >>
      [] o = "status" ->
           << Entry("Server responded with status", "warning", 0, 0),
              Entry("Response may indicate server is still waking up", "warning", 0, 0) >>
      [] OTHER ->
           << Entry(IF o = "timeout" THEN "Request failed: timed out"
                    ELSE "Request failed", "error", 0, 0),
              Entry("Server may be in cold start", "error", 0, 0) >>
           \o IF wakeUpServer_mayRetry(wakeRetryCount)
              THEN << Entry("Retrying in", "info", 0, BackoffDelay(wakeRetryCount)) >>
              ELSE << Entry("Max retries reached", "warning", MAX_RETRIES_STARTUP, 0) >>

\* setTimeout(() => wakeUpServer(retryCount + 1), delay) fires
wakeUpServer_retry ==
    /\ wakePc = "backoff"
    /\ wakeRetryCount' = wakeRetryCount + 1
    /\ serverWakingUp' = TRUE
    /\ wakeChecks' = wakeChecks + 1
    /\ wakePc' = "ping"
    /\ wakeDelay' = 0
    /\ wakeLast' = "none"
    /\ UNCHANGED <<jobVars, uiVars, sseVars, histVars>>

wakeUpServer_retry_log ==
    wakeUpLogs \o
    << Entry("Attempting to ping backend server", "info", wakeRetryCount + 2, 0),
       Entry("Target URL", "info", 0, 0) >>

\* Mutant: the timer is set up for the successful attempt only, so after a
\* failed run its callback never runs
wakeUpServer_hide_afterSuccessOnly ==
    /\ wakePc = "hide_wait"
    /\ wakeDelay = 1000
    /\ serverWakingUp' = FALSE
    /\ wakePc' = "done"
    /\ wakeDelay' = 0
    /\ wakeLast' = "none"
    /\ UNCHANGED <<wakeRetryCount, wakeChecks>>
    /\ UNCHANGED <<jobVars, uiVars, sseVars, histVars>>

\* setTimeout(() => setServerWakingUp(false), 1000 or 2000) fires
wakeUpServer_hide ==
    /\ wakePc = "hide_wait"
    /\ serverWakingUp' = FALSE
    /\ wakePc' = "done"
    /\ wakeDelay' = 0
    /\ wakeLast' = "none"
    /\ UNCHANGED <<wakeRetryCount, wakeChecks>>
    /\ UNCHANGED <<jobVars, uiVars, sseVars, histVars>>

\* ------------------------------------------- wakeUpServerBeforeAudit (prober)
\* Mutant: the loop condition off by one, retryCount <= MAX_RETRIES
wakeUpServerBeforeAudit_loops_offByOne(n) == n <= MAX_RETRIES_AUDIT

\* for (let retryCount = 0; retryCount < MAX_RETRIES; retryCount++)
wakeUpServerBeforeAudit_loops(n) == n < MAX_RETRIES_AUDIT

\* Mutant: the wait before the next attempt is left out
wakeUpServerBeforeAudit_waits_never(n) == FALSE

\* catch branch: if (retryCount < MAX_RETRIES - 1)
wakeUpServerBeforeAudit_waits(n) == n < MAX_RETRIES_AUDIT - 1

\* The entries the call logs before its first fetch is issued
wakeUpServerBeforeAudit_start_log ==
    << Entry("Checking if backend server is awake before starting audit", "info", 0, 0),
       Entry("This may take 30-60 seconds", "info", 0, 0),
       Entry("Pinging server", "info", 1, 0) >>

\* The entries logged after the loop: the run returns false
wakeUpServerBeforeAudit_exhausted_log ==
    << Entry("Max wake-up retries reached", "error", MAX_RETRIES_AUDIT, 0),
       Entry("Please wait a moment and try again", "warning", 0, 0) >>

\* What the run does when the fetch of attempt retryCount settles with o:
\*   "ready"     return true
\*   "next"      the loop goes on to the next attempt at once
\*   "wait"      the loop awaits the backoff delay
\*   "exhausted" the loop ends, return false
wakeUpServerBeforeAudit_step(o, n) ==
    CASE o = "ok" -> "ready"
      [] o = "status" -> IF wakeUpServerBeforeAudit_loops(n + 1) THEN "next" ELSE "exhausted"
      [] OTHER -> IF wakeUpServerBeforeAudit_waits(n) THEN "wait"
                  ELSE IF wakeUpServerBeforeAudit_loops(n + 1) THEN "next" ELSE "exhausted"

wakeUpServerBeforeAudit_step_log(o, n) ==
    ( CASE o = "ok" ->
             << Entry("Server is awake and ready", "success", 0, 0),
                Entry("Response", "success", 0, 0) >>
        [] o = "status" ->
             << Entry("Server responded with status", "warning", 0, 0) >>
        [] OTHER ->
             << Entry(IF o = "timeout" THEN "Wake-up attempt failed: timed out"
                      ELSE "Wake-up attempt failed", "error", 0, 0),
                Entry("Server may be in cold start", "info", 0, 0) >>
             \o IF wakeUpServerBeforeAudit_waits(n)
                THEN << Entry("Retrying in", "info", 0, BackoffDelay(n)) >>
                ELSE <<>> )
    \o ( CASE wakeUpServerBeforeAudit_step(o, n) = "next" ->
                << Entry("Pinging server", "info", n + 2, 0) >>
           [] wakeUpServerBeforeAudit_step(o, n) = "exhausted" ->
                wakeUpServerBeforeAudit_exhausted_log
           [] OTHER -> <<>> )

\* --------------------------------------------------------------- handleAudit
\* Mutant: the test for an empty value is dropped, normalizedUrl === 'https://'
handleAudit_rejects_schemeOnly(n) == n = <<"https:", "/", "/">>

\* if (!normalizedUrl || normalizedUrl === 'https://')
handleAudit_rejects(n) == n = <<>> \/ n = <<"https:", "/", "/">>

\* The submit event of the form.  The button is disabled while loading, and
\* nothing else keeps a second run from starting.
\* A valid target runs on into wakeUpServerBeforeAudit, up to its first fetch.
handleAudit_submit(u) ==
    /\ ~loading
    /\ jobs < MaxJobs
    /\ jobs' = jobs + 1
    /\ result' = null
    /\ UNCHANGED <<wakeVars, streams, timers, sseConnection>>
    /\ IF handleAudit_rejects(normalizeUrl(u))
       THEN /\ error' = "invalid_url"
            /\ loading' = FALSE
            /\ UNCHANGED <<jobVars, probeChecks, probeResult, posts, bodies, reconCount,
                           probeLast>>
       ELSE /\ error' = "null"
            /\ loading' = TRUE
            /\ normalizedUrl' = normalizeUrl(u)
            /\ capturedSse' = sseConnection
            /\ requestId' = NoId
            /\ eventSource' = 0
            /\ attempt' = 0
            /\ probeCtx' = "pre"
            /\ retryCount' = 0
            /\ probeChecks' = 1
            /\ probeResult' = "running"
            /\ probeLast' = "none"
            /\ delay' = 0
            /\ posts' = <<>>
            /\ bodies' = <<>>
            /\ reconCount' = 0
            /\ pc' = "ping"

handleAudit_submit_log(u) ==
    IF handleAudit_rejects(normalizeUrl(u)) THEN <<>>
    ELSE << Entry("Checking if backend server is awake", "info", 0, 0) >>
         \o wakeUpServerBeforeAudit_start_log

\* Lines 266-287: close the connection the render saw, generate the request
\* id, create the EventSource (its onmessage is not assigned yet) and await
\* the first 500 ms timer.
handleAudit_connect ==
    LET closed == IF capturedSse # 0
                  THEN [streams EXCEPT ![capturedSse].open = FALSE]
                  ELSE streams
    IN /\ streams' = Append(closed, [id |-> randomUUID(jobs), open |-> TRUE,
                                     onmessage |-> "none", onerror |-> FALSE])
       /\ sseConnection' = Len(streams) + 1
       /\ eventSource' = Len(streams) + 1
       /\ requestId' = randomUUID(jobs)
       /\ delay' = 500
       /\ pc' = "sse_wait1"

handleAudit_connect_log == << Entry("Connecting to SSE stream", "info", 0, 0) >>

\* The fetch of the running prober attempt settles with outcome o.
wakeUpServerBeforeAudit_settles(o) ==
    LET step == wakeUpServerBeforeAudit_step(o, retryCount) IN
    /\ pc = "ping"
    /\ UNCHANGED <<wakeVars, uiVars, timers, jobs, posts, bodies, reconCount>>
    /\ UNCHANGED <<probeCtx, attempt, normalizedUrl, capturedSse>>
    /\ probeResult' = CASE step = "ready" -> "true"
                         [] step = "exhausted" -> "false"
                         [] OTHER -> probeResult
    /\ probeLast' = o
    /\ CASE step = "next" ->
              /\ retryCount' = retryCount + 1
              /\ probeChecks' = probeChecks + 1
              /\ UNCHANGED <<pc, delay, requestId, eventSource, streams, sseConnection>>
         [] step = "wait" ->
              /\ pc' = "ping_wait"
              /\ delay' = BackoffDelay(retryCount)
              /\ UNCHANGED <<retryCount, probeChecks, requestId, eventSource,
                             streams, sseConnection>>
         [] step = "ready" /\ probeCtx = "pre" ->
              /\ handleAudit_connect
              /\ UNCHANGED <<retryCount, probeChecks>>
         [] step = "exhausted" /\ probeCtx = "pre" ->
              /\ pc' = "awake_wait"
              /\ delay' = 2000
              /\ retryCount' = retryCount + 1
              /\ UNCHANGED <<probeChecks, requestId, eventSource, streams, sseConnection>>
         [] OTHER ->
              /\ pc' = "retry_wait"
              /\ delay' = 2000
              /\ retryCount' = IF step = "exhausted" THEN retryCount + 1 ELSE retryCount
              /\ UNCHANGED <<probeChecks, requestId, eventSource, streams, sseConnection>>

wakeUpServerBeforeAudit_settles_log(o) ==
    LET step == wakeUpServerBeforeAudit_step(o, retryCount) IN
    retryLogs \o wakeUpServerBeforeAudit_step_log(o, retryCount)
    \o ( CASE step = "ready" /\ probeCtx = "pre" -> handleAudit_connect_log
           [] step = "exhausted" /\ probeCtx = "pre" ->
                << Entry("Wake-up check completed but server may still be waking up",
                         "warning", 0, 0) >>
           [] OTHER -> <<>> )

\* Mutant: the promise of the backoff wait is never resolved,
\* new Promise(resolve => setTimeout(() => {}, delay))
wakeUpServerBeforeAudit_delay_unresolved ==
    /\ pc = "ping_wait"
    /\ FALSE
    /\ UNCHANGED ctlVars

\* await new Promise(resolve => setTimeout(resolve, delay)) resolves: the loop
\* increments retryCount and issues the next fetch.
wakeUpServerBeforeAudit_delay ==
    /\ pc = "ping_wait"
    /\ retryCount' = retryCount + 1
    /\ probeChecks' = probeChecks + 1
    /\ pc' = "ping"
    /\ delay' = 0
    /\ probeLast' = "none"
    /\ UNCHANGED <<wakeVars, uiVars, sseVars, jobs, probeResult, posts, bodies, reconCount>>
    /\ UNCHANGED <<probeCtx, attempt, normalizedUrl, requestId, eventSource, capturedSse>>

wakeUpServerBeforeAudit_delay_log ==
    retryLogs \o << Entry("Pinging server", "info", retryCount + 2, 0) >>

\* Mutant: an exhausted pre-submission run fails the job,
\* if (!serverIsAwake) { setError(...); setLoading(false); return; }
handleAudit_awake_fails ==
    /\ pc = "awake_wait"
    /\ error' = "message"
    /\ loading' = FALSE
    /\ pc' = "idle"
    /\ delay' = 0
    /\ UNCHANGED <<wakeVars, result, sseVars, histVars>>
    /\ UNCHANGED <<probeCtx, retryCount, attempt, normalizedUrl, requestId,
                   eventSource, capturedSse>>

\* Line 263: the 2000 ms wait after an exhausted pre-submission run resolves.
handleAudit_awake ==
    /\ pc = "awake_wait"
    /\ handleAudit_connect
    /\ probeLast' = "none"
    /\ UNCHANGED <<wakeVars, uiVars, timers, jobs, probeChecks, probeResult, posts, bodies,
                   reconCount>>
    /\ UNCHANGED <<probeCtx, retryCount, attempt, normalizedUrl, capturedSse>>

handleAudit_awake_log == retryLogs \o handleAudit_connect_log

\* Line 287 resolves: eventSource.onmessage and eventSource.onerror are
\* assigned, then the second 500 ms timer is awaited.
handleAudit_handlers ==
    /\ pc = "sse_wait1"
    /\ streams' = [streams EXCEPT ![eventSource].onmessage = "original",
                                  ![eventSource].onerror = TRUE]
    /\ pc' = "sse_wait2"
    /\ delay' = 500
    /\ probeLast' = "none"
    /\ UNCHANGED <<wakeVars, uiVars, timers, sseConnection, jobs, probeChecks,
                   probeResult, posts, bodies, reconCount>>
    /\ UNCHANGED <<probeCtx, retryCount, attempt, normalizedUrl, requestId,
                   eventSource, capturedSse>>

\* ---------------------------------------------------------- sendAuditRequest
\* Mutant: every failed attempt counts as transient
sendAuditRequest_transient_anyError(o) == o # "ok"

\* Mutant: an HTTP error status counts as transient too
sendAuditRequest_transient_httpToo(o) == o \in {"failed_fetch", "abort", "http"}

\* if ((err.message && err.message.includes('Failed to fetch')) ||
\*     err.name === 'AbortError')
sendAuditRequest_transient(o) == o \in {"failed_fetch", "abort"}

\* Mutant: no attempt is retried, the error is rethrown at once
sendAuditRequest_retries_never(o, a) == FALSE

\* Mutant: the bound is off by one, attempt <= maxAttempts
sendAuditRequest_retries_offByOne(o, a) ==
    o \in {"failed_fetch", "abort"} /\ a <= maxAttempts

\* if (attempt < maxAttempts)
sendAuditRequest_retries(o, a) == sendAuditRequest_transient(o) /\ a < maxAttempts

\* Mutant: every attempt generates an id of its own for its body
sendAuditRequest_body_freshId ==
    [url |-> normalizedUrl, request_id |-> <<"client", jobs + attempt>>]

\* body: JSON.stringify({ url: normalizedUrl, request_id: requestId })
sendAuditRequest_body == [url |-> normalizedUrl, request_id |-> requestId]

\* Line 331 resolves: sendAuditRequest() issues the first fetch.
handleAudit_send ==
    /\ pc = "sse_wait2"
    /\ attempt' = 1
    /\ posts' = Append(posts, "pending")
    /\ bodies' = Append(bodies, sendAuditRequest_body)
    /\ pc' = "post"
    /\ delay' = 0
    /\ probeLast' = "none"
    /\ UNCHANGED <<wakeVars, uiVars, sseVars, jobs, probeChecks, probeResult, reconCount>>
    /\ UNCHANGED <<probeCtx, retryCount, normalizedUrl, requestId, eventSource,
                   capturedSse>>

\* Mutant: the entry replaces the log the render saw empty,
\* setRetryLogs([...retryLogs, entry]) with retryLogs of the closure
handleAudit_send_log_replaces ==
    << Entry("Sending audit request to backend", "info", 1, 0) >>

handleAudit_send_log ==
    retryLogs \o << Entry("Sending audit request to backend", "info", 1, 0) >>

\* Line 370 resolves: return sendAuditRequest(attempt + 1, maxAttempts)
sendAuditRequest_retry ==
    /\ pc = "retry_wait"
    /\ attempt' = attempt + 1
    /\ posts' = Append(posts, "pending")
    /\ bodies' = Append(bodies, sendAuditRequest_body)
    /\ pc' = "post"
    /\ delay' = 0
    /\ probeLast' = "none"
    /\ UNCHANGED <<wakeVars, uiVars, sseVars, jobs, probeChecks, probeResult, reconCount>>
    /\ UNCHANGED <<probeCtx, retryCount, normalizedUrl, requestId, eventSource,
                   capturedSse>>

\* Mutant: the entry of a resubmission prints the index of the failed attempt
sendAuditRequest_retry_log_sameIndex ==
    retryLogs \o << Entry("Sending audit request to backend", "info", attempt, 0) >>

sendAuditRequest_retry_log ==
    retryLogs \o << Entry("Sending audit request to backend", "info", attempt + 1, 0) >>

\* data.request_id of the response body: absent, the id the request carried,
\* or an id of the backend's own
ResponseIds == {"absent", "same", "different"}
responseId(r) ==
    CASE r = "absent" -> NoId
      [] r = "same" -> requestId
      [] OTHER -> backendUUID(jobs)

\* Mutant: the test for a present id is dropped, data.request_id !== requestId
handleAudit_reconciles_anyDifference(rid) == rid # requestId

\* Mutant: the comparison is dropped, if (data.request_id)
handleAudit_reconciles_anyId(rid) == rid # NoId

\* if (data.request_id && data.request_id !== requestId)
handleAudit_reconciles(rid) == rid # NoId /\ rid # requestId

\* Mutant: the old connection is not closed before the new one is created
handleAudit_closeOld_skipped(s) == s

\* if (eventSource) { eventSource.close(); } of the reconciliation
handleAudit_closeOld(s) == [s EXCEPT ![eventSource].open = FALSE]

\* Mutant: the last branch sets err.message without its default,
\* setError(err.message), and the message is empty
handleAudit_classify_noDefault(o) ==
    CASE o = "abort" -> "timed_out"
      [] o \in {"failed_fetch", "network_error"} -> "failed_to_connect"
      [] OTHER -> "null"

\* The classified error handleAudit's catch block sets
handleAudit_classify(o) ==
    CASE o = "abort" -> "timed_out"
      [] o \in {"failed_fetch", "network_error"} -> "failed_to_connect"
      [] OTHER -> "message"

\* Mutant: finally sets up the timer and leaves loading as it is
handleAudit_finally_keepsLoading(es) ==
    /\ loading' = loading
    /\ timers' = timers \cup {es}
    /\ pc' = "idle"
    /\ probeCtx' = "pre"
    /\ retryCount' = 0
    /\ attempt' = 0
    /\ normalizedUrl' = <<>>
    /\ capturedSse' = 0
    /\ delay' = 0
    /\ bodies' = <<>>

\* finally: setLoading(false) and the 5000 ms timer that closes eventSource.
\* The invocation returns: its locals other than the ones the history of the
\* job is read from (requestId, eventSource) are gone, and so is the record
\* of the bodies it sent.
handleAudit_finally(es) ==
    /\ loading' = FALSE
    /\ timers' = timers \cup {es}
    /\ pc' = "idle"
    /\ probeCtx' = "pre"
    /\ retryCount' = 0
    /\ attempt' = 0
    /\ normalizedUrl' = <<>>
    /\ capturedSse' = 0
    /\ delay' = 0
    /\ bodies' = <<>>

\* Mutant: the retry waits and resubmits without waking the server up again
sendAuditRequest_reprobes_skipped ==
    /\ probeCtx' = "retry"
    /\ pc' = "retry_wait"
    /\ delay' = 2000
    /\ UNCHANGED <<retryCount, probeChecks, probeResult, probeLast>>

\* Lines 363-367 of the catch block: await wakeUpServerBeforeAudit(), which
\* runs up to the fetch of its first attempt
sendAuditRequest_reprobes ==
    /\ probeCtx' = "retry"
    /\ retryCount' = 0
    /\ probeChecks' = 1
    /\ probeResult' = "running"
    /\ probeLast' = "none"
    /\ pc' = "ping"
    /\ UNCHANGED delay

\* The fetch of the running submission attempt settles with outcome o; on
\* success the body carries request id r.
sendAuditRequest_settles(o, r) ==
    /\ pc = "post"
    /\ posts' = [posts EXCEPT ![Len(posts)] = o]
    /\ UNCHANGED <<wakeVars, jobs>>
    /\ CASE o = "ok" /\ handleAudit_reconciles(responseId(r)) ->
              /\ requestId' = responseId(r)
              /\ streams' = Append(handleAudit_closeOld(streams),
                                   [id |-> responseId(r), open |-> TRUE,
                                    onmessage |-> "reconciled", onerror |-> FALSE])
              /\ eventSource' = Len(streams) + 1
              /\ sseConnection' = Len(streams) + 1
              /\ reconCount' = reconCount + 1
              /\ result' = Body(responseId(r))
              /\ handleAudit_finally(Len(streams) + 1)
              /\ UNCHANGED <<error, probeChecks, probeResult, probeLast>>
         [] o = "ok" /\ ~handleAudit_reconciles(responseId(r)) ->
              /\ result' = Body(responseId(r))
              /\ handleAudit_finally(eventSource)
              /\ UNCHANGED <<error, probeChecks, probeResult, probeLast, requestId,
                             eventSource, streams, sseConnection, reconCount>>
         [] o # "ok" /\ sendAuditRequest_retries(o, attempt) ->
              /\ sendAuditRequest_reprobes
              /\ UNCHANGED bodies
              /\ UNCHANGED <<uiVars, sseVars, requestId, eventSource, reconCount,
                             normalizedUrl, capturedSse, attempt>>
         [] OTHER ->
              /\ streams' = [streams EXCEPT ![eventSource].open = FALSE]
              /\ sseConnection' = 0
              /\ error' = handleAudit_classify(o)
              /\ handleAudit_finally(eventSource)
              /\ UNCHANGED <<result, probeChecks, probeResult, probeLast, requestId,
                             eventSource, reconCount>>

sendAuditRequest_settles_log(o, r) ==
    retryLogs \o
    CASE o = "ok" ->
           << Entry("Audit request received response from backend", "success", 0, 0) >>
           \o IF handleAudit_reconciles(responseId(r))
              THEN << Entry("Backend provided different request_id", "info", 0, 0) >>
              ELSE <<>>
      [] o # "ok" /\ sendAuditRequest_retries(o, attempt) ->
           << Entry("Audit request failed", "error", 0, 0),
              Entry("Retrying after waking up server again", "warning", attempt + 1, 0) >>
           \o wakeUpServerBeforeAudit_start_log
      [] OTHER ->
           << Entry("Audit request failed", "error", 0, 0) >>
           \o ( CASE handleAudit_classify(o) = "timed_out" ->
                       << Entry("Request timed out after 2 minutes", "error", 0, 0) >>
                  [] handleAudit_classify(o) = "failed_to_connect" ->
                       << Entry("Failed to connect to the backend server", "error", 0, 0),
                          Entry("Tip: Wait 30-60 seconds after page load", "info", 0, 0) >>
                  [] OTHER -> << Entry("Error", "error", 0, 0) >> )

\* Mutant: the timer closes the connection held in the sseConnection state
\* instead of the eventSource of its own run
handleAudit_grace_closesCurrent(es) ==
    /\ es \in timers
    /\ timers' = timers \ {es}
    /\ streams' = IF sseConnection # 0
                  THEN [streams EXCEPT ![sseConnection].open = FALSE]
                  ELSE streams
    /\ sseConnection' = 0
    /\ UNCHANGED <<wakeVars, jobVars, uiVars, histVars>>

\* The 5000 ms timer of a finished job fires:
\* if (eventSource) { eventSource.close(); setSseConnection(null); }
handleAudit_grace(es) ==
    /\ es \in timers
    /\ timers' = timers \ {es}
    /\ streams' = [streams EXCEPT ![es].open = FALSE]
    /\ sseConnection' = 0
    /\ UNCHANGED <<wakeVars, jobVars, uiVars, histVars>>

\* ------------------------------------------------------- EventSource events
EventTypes == {"connected", "audit_started", "quota_exhausted_retry",
               "rate_limit_retry", "retry_complete", "audit_completed",
               "audit_error"}

\* A frame: event.data is JSON text or not; if it is, its type field and
\* whether it has a data object.  Frames without a data object are drawn for
\* a type whose branch reads no data (connected), a type whose branch reads
\* it (audit_started) and the type only one handler has a branch for
\* (audit_error).
Frames ==
    { [json |-> FALSE, type |-> "none", data |-> FALSE] }
    \cup [json : {TRUE}, type : EventTypes \cup {"unrecognized"}, data : {TRUE}]
    \cup [json : {TRUE}, type : {"connected", "audit_started", "audit_error"},
          data : {FALSE}]

\* The statements of the try block run to the end: JSON.parse succeeds and no
\* branch reads a field of an absent eventData.data.
onmessage_decodes(f) ==
    /\ f.json
    /\ f.type \in EventTypes \ {"connected"} => f.data

\* Mutant: the catch block reports the parse error in the retry log
onmessage_catch_logs == << Entry("Error parsing SSE event", "error", 0, 0) >>

\* catch (err) { console.error('Error parsing SSE event:', err); }
onmessage_catch == <<>>

\* eventData.data of a retry event: the fields the handlers print.  A data
\* object without them prints undefined, which 0 stands for.
NoPayload ==
    [agent_name |-> "none", retry_attempt |-> 0, max_retries |-> 0,
     total_wait_time |-> 0, retry_time_from_error |-> 0, jitter |-> 0]
onmessage_data(f) == IF "payload" \in DOMAIN f THEN f.payload ELSE NoPayload

\* Mutant: the line prints the wait of the error where the total belongs,
\* Waiting ${data.retry_time_from_error}s
onmessage_retryLine_showsSource(f) ==
    LET data == onmessage_data(f) IN
    [msg |-> "Retry - Waiting (source + jitter)", type |-> "info",
     n |-> data.retry_attempt, d |-> 0, max |-> data.max_retries,
     total |-> data.retry_time_from_error,
     from |-> data.retry_time_from_error, jitter |-> data.jitter]

\* Line 309: Retry ${retry_attempt}/${max_retries} - Waiting
\* ${total_wait_time}s (from error: ${retry_time_from_error}s | fallback
\* + jitter: ${jitter}s); a falsy retry_time_from_error prints 'fallback'.
\* Waits are in tenths of a second.
onmessage_retryLine(f) ==
    LET data == onmessage_data(f) IN
    [msg |-> "Retry - Waiting (source + jitter)", type |-> "info",
     n |-> data.retry_attempt, d |-> 0, max |-> data.max_retries,
     total |-> data.total_wait_time,
     from |-> data.retry_time_from_error, jitter |-> data.jitter]

\* Mutant: the handler has no branch for audit_error, as the handler of the
\* reconciled stream
onmessage_errorLine_absent(f) == <<>>

\* Line 317: addRetryLog(`Error: ${eventData.data.message}`, 'error')
onmessage_errorLine(f) == << Entry("audit_error", "error", 0, 0) >>

\* Lines 290-322: the entries the handler assigned first appends for frame f
onmessage_original(f) ==
    IF ~onmessage_decodes(f) THEN onmessage_catch
    ELSE CASE f.type = "connected" ->
                << Entry("SSE connection established", "success", 0, 0) >>
           [] f.type = "audit_started" ->
                << Entry("Starting SEO audit for", "info", 0, 0) >>
           [] f.type \in {"quota_exhausted_retry", "rate_limit_retry"} ->
                << Entry(f.type, "warning", 0, 0), onmessage_retryLine(f) >>
           [] f.type = "retry_complete" ->
                << Entry("retry_complete", "success", 0, 0) >>
           [] f.type = "audit_completed" ->
                << Entry("audit_completed", "success", 0, 0) >>
           [] f.type = "audit_error" -> onmessage_errorLine(f)
           [] OTHER -> <<>>

\* Lines 401-420: the entries the handler of the reconciled stream appends
onmessage_reconciled(f) ==
    IF ~(f.json /\ (f.type \in EventTypes \ {"connected", "audit_error"} => f.data))
    THEN onmessage_catch
    ELSE CASE f.type = "connected" ->
                << Entry("SSE connection established", "success", 0, 0) >>
           [] f.type = "audit_started" ->
                << Entry("Starting SEO audit for", "info", 0, 0) >>
           [] f.type \in {"quota_exhausted_retry", "rate_limit_retry"} ->
                << Entry(f.type, "warning", 0, 0),
                   [msg |-> "Retry - Waiting", type |-> "info",
                    n |-> onmessage_data(f).retry_attempt, d |-> 0,
                    max |-> onmessage_data(f).max_retries,
                    total |-> onmessage_data(f).total_wait_time] >>
           [] f.type = "retry_complete" ->
                << Entry("retry_complete", "success", 0, 0) >>
           [] f.type = "audit_completed" ->
                << Entry("audit_completed", "success", 0, 0) >>
           [] OTHER -> <<>>

\* The entries stream s appends for frame f; a stream whose onmessage is not
\* assigned has no listener and the frame is gone.
onmessage(s, f) ==
    CASE streams[s].onmessage = "original" -> onmessage_original(f)
      [] streams[s].onmessage = "reconciled" -> onmessage_reconciled(f)
      [] OTHER -> <<>>

\* Mutant: the sink puts the newest entries first,
\* setRetryLogs(prev => [entry, ...prev])
eventSource_message_prepends(s, f) ==
    /\ s \in 1..Len(streams)
    /\ streams[s].open
    /\ retryLogs' = onmessage(s, f) \o retryLogs
    /\ frameLog' = Append(frameLog, [stream |-> s, frame |-> f,
                                      listener |-> streams[s].onmessage])
    /\ UNCHANGED <<ctlVars, wakeUpLogs, mounted, jobChecks>>

\* Mutant: a frame the stream has delivered before is dropped
eventSource_message_dedupes(s, f) ==
    /\ s \in 1..Len(streams)
    /\ streams[s].open
    /\ retryLogs' = IF \E i \in 1..Len(frameLog) :
                         frameLog[i].stream = s /\ frameLog[i].frame = f
                    THEN retryLogs
                    ELSE retryLogs \o onmessage(s, f)
    /\ frameLog' = Append(frameLog, [stream |-> s, frame |-> f,
                                      listener |-> streams[s].onmessage])
    /\ UNCHANGED <<ctlVars, wakeUpLogs, mounted, jobChecks>>

\* The channel of open stream s delivers frame f.
eventSource_message(s, f) ==
    /\ s \in 1..Len(streams)
    /\ streams[s].open
    /\ retryLogs' = retryLogs \o onmessage(s, f)
    /\ frameLog' = Append(frameLog, [stream |-> s, frame |-> f,
                                      listener |-> streams[s].onmessage])
    /\ UNCHANGED <<ctlVars, wakeUpLogs, mounted, jobChecks>>

\* Lines 324-328: the channel of open stream s reports an error.  The
\* handler logs and closes nothing; the reconciled stream has no onerror.
eventSource_error(s) ==
    /\ s \in 1..Len(streams)
    /\ streams[s].open
    /\ retryLogs' = IF streams[s].onerror
                    THEN Append(retryLogs, Entry("SSE connection error", "warning", 0, 0))
                    ELSE retryLogs
    /\ UNCHANGED <<ctlVars, wakeUpLogs, frameLog, mounted, jobChecks, pipeVars>>

\* ------------------------------------------------ the pipeline (backend)
\* The pipeline runs in the backend, whose code is agent/agent.py; it is
\* modelled from section 4.5 of the specification.  Waits are in tenths of
\* a second.
Stages == << "page-inspection", "comparative-analysis", "recommendation-generation" >>
\* the attempt bound of a stage
StageAttempts == 3
\* the wait a recoverable failure may supply (0: none) and the default
UpstreamWaits == {0, 200}
FallbackWait == 600
Jitters == {14}
RetryTypes == {"quota_exhausted_retry", "rate_limit_retry"}

\* wait supplied by the upstream error, else the default, plus jitter
stageWait(upstream, jitter) ==
    (IF upstream > 0 THEN upstream ELSE FallbackWait) + jitter

Event(type, payload) == [type |-> type, payload |-> payload]

\* the event of a retry decision of the running stage
stageRetryEvent(type, upstream, jitter) ==
    Event(type, [agent_name |-> Stages[pipeline.stage],
                 retry_attempt |-> pipeline.attempt,
                 max_retries |-> StageAttempts,
                 total_wait_time |-> stageWait(upstream, jitter),
                 retry_time_from_error |-> upstream,
                 jitter |-> jitter])

\* The backend has received the request in flight and starts its pipeline.
pipeline_start ==
    /\ pc = "post"
    /\ pipeline.job # jobs
    /\ pipeline' = [job |-> jobs, status |-> "running", stage |-> 1, attempt |-> 1,
                    retried |-> FALSE, failures |-> 0, delivered |-> 0]
    /\ emitted' = << Event("audit_started", NoPayload) >>

\* The upstream call of the running stage succeeds.
pipeline_stageSucceeds ==
    LET recovered == IF pipeline.retried
                     THEN << Event("retry_complete", NoPayload) >> ELSE <<>>
    IN /\ pipeline.status = "running"
       /\ IF pipeline.stage = Len(Stages)
          THEN /\ pipeline' = [pipeline EXCEPT !.status = "completed"]
               /\ emitted' = emitted \o recovered
                                \o << Event("audit_completed", NoPayload) >>
          ELSE /\ pipeline' = [pipeline EXCEPT !.stage = @ + 1, !.attempt = 1,
                                               !.retried = FALSE]
               /\ emitted' = emitted \o recovered

\* The upstream call of the running stage fails with a quota or rate-limit
\* error, which supplies a wait or none.
pipeline_stageFails(type, upstream, jitter) ==
    /\ pipeline.status = "running"
    /\ pipeline.failures < MaxStageFailures
    /\ IF pipeline.attempt < StageAttempts
       THEN /\ pipeline' = [pipeline EXCEPT !.attempt = @ + 1, !.retried = TRUE,
                                            !.failures = @ + 1]
            /\ emitted' = Append(emitted, stageRetryEvent(type, upstream, jitter))
       ELSE /\ pipeline' = [pipeline EXCEPT !.status = "failed", !.failures = @ + 1]
            /\ emitted' = Append(emitted, Event("audit_error", NoPayload))

\* the frame that carries event e
Frame(e) == [json |-> TRUE, type |-> e.type, data |-> TRUE, payload |-> e.payload]

\* The channel of the job's stream delivers the next event of the pipeline.
pipeline_delivers ==
    /\ pipeline.job = jobs
    /\ pipeline.delivered < Len(emitted)
    /\ eventSource_message(eventSource, Frame(emitted[pipeline.delivered + 1]))
    /\ pipeline' = [pipeline EXCEPT !.delivered = @ + 1]
    /\ UNCHANGED <<emitted, faults>>

\* the outcome of the request in flight: the response follows the end of the
\* pipeline, a failed pipeline answers with an error status
pipeline_responds(o) ==
    /\ pipeline.job = jobs
    /\ \/ pipeline.status = "completed" /\ o = "ok"
       \/ pipeline.status = "failed" /\ o = "http"


\* ---------------------------------------------------------- specifications
\* wakeUpLogs and retryLogs are written and never read by the code, and the
\* frames and errors of a channel only write retryLogs.  Control(A) is action
\* A with the logs left out.
Control(A) == A /\ UNCHANGED <<logVars, envVars, mounted, jobChecks, pipeVars>>

\* The steps of the startup prober
StartupNext ==
    \/ \E o \in PingOutcomes : Control(wakeUpServer_settles(o))
    \/ Control(wakeUpServer_retry)
    \/ Control(wakeUpServer_hide)

\* The steps of a started handleAudit run
JobNext ==
    \/ \E o \in PingOutcomes : Control(wakeUpServerBeforeAudit_settles(o))
    \/ Control(wakeUpServerBeforeAudit_delay)
    \/ Control(handleAudit_awake)
    \/ Control(handleAudit_handlers)
    \/ Control(handleAudit_send)
    \/ \E o \in PostOutcomes, r \in ResponseIds : Control(sendAuditRequest_settles(o, r))
    \/ Control(sendAuditRequest_retry)

\* The grace timers of finished runs
GraceNext == \E es \in timers : Control(handleAudit_grace(es))

\* SpecControl: the orchestrator over several jobs, under every outcome of
\* every network call.  The startup prober shares no variable with it.
NextControl ==
    \/ \E u \in Inputs : jobs < MaxJobs /\ Control(handleAudit_submit(u))
    \/ JobNext
    \/ GraceNext

SpecControl == Init /\ [][NextControl]_vars

\* SpecJobsFair: consecutive jobs under every outcome of every network call,
\* where every pending fetch settles and every pending timer fires; the user
\* need not submit.
NextJobs ==
    \/ \E u \in StreamInputs : jobs < MaxHandoverJobs /\ Control(handleAudit_submit(u))
    \/ JobNext
    \/ GraceNext

SpecJobsFair == Init /\ [][NextJobs]_vars /\ WF_vars(JobNext) /\ WF_vars(GraceNext)

\* SpecProbers: the startup prober next to the jobs, under every outcome of
\* every network call.
NextProbers ==
    \/ StartupNext
    \/ \E u \in StreamInputs : jobs < MaxProbeJobs /\ Control(handleAudit_submit(u))
    \/ JobNext
    \/ GraceNext

SpecProbers == Init /\ [][NextProbers]_vars

\* Every pending fetch settles (it returns, fails or times out) and every
\* pending timer fires; the user need not submit.
SpecProbersFair ==
    SpecProbers /\ WF_vars(StartupNext) /\ WF_vars(JobNext) /\ WF_vars(GraceNext)

\* SpecStream: the orchestrator with retryLogs and the events of its streams.
\* The environment injects a bounded number of faults and events.  With
\* fewer than MAX_RETRIES_AUDIT faults no prober run is exhausted, so
\* handleAudit_awake has no step here.
Logged(A, log) ==
    A /\ retryLogs' = log /\ UNCHANGED <<wakeUpLogs, mounted, jobChecks, pipeVars>>

InjectUpTo(isFault, max) ==
    /\ isFault => faults < max
    /\ faults' = IF isFault THEN faults + 1 ELSE faults

Inject(isFault) == InjectUpTo(isFault, MaxFaults)

NextStream ==
    \/ \E u \in StreamInputs :
          /\ jobs < MaxStreamJobs
          /\ Logged(handleAudit_submit(u), handleAudit_submit_log(u))
          /\ frameLog' = <<>>
          /\ UNCHANGED faults
    \/ \E o \in PingOutcomes :
          /\ Inject(o # "ok")
          /\ Logged(wakeUpServerBeforeAudit_settles(o),
                    wakeUpServerBeforeAudit_settles_log(o))
          /\ UNCHANGED frameLog
    \/ Logged(wakeUpServerBeforeAudit_delay, wakeUpServerBeforeAudit_delay_log)
       /\ UNCHANGED envVars
    \/ Logged(handleAudit_handlers, retryLogs) /\ UNCHANGED envVars
    \/ Logged(handleAudit_send, handleAudit_send_log) /\ UNCHANGED envVars
    \/ \E o \in PostOutcomes, r \in ResponseIds :
          /\ Inject(o # "ok")
          /\ Logged(sendAuditRequest_settles(o, r), sendAuditRequest_settles_log(o, r))
          /\ UNCHANGED frameLog
    \/ Logged(sendAuditRequest_retry, sendAuditRequest_retry_log) /\ UNCHANGED envVars
    \/ \E es \in timers : Logged(handleAudit_grace(es), retryLogs) /\ UNCHANGED envVars
    \/ \E s \in 1..Len(streams), f \in Frames :
          Inject(TRUE) /\ eventSource_message(s, f) /\ UNCHANGED pipeVars
    \/ \E s \in 1..Len(streams) : Inject(TRUE) /\ eventSource_error(s)

SpecStream == Init /\ [][NextStream]_vars

\* SpecProbeLog: one job with retryLogs and no stream events, under a larger
\* number of failed liveness checks and failed submission requests.
NextProbeLog ==
    \/ \E u \in StreamInputs :
          /\ jobs < MaxProbeJobs
          /\ Logged(handleAudit_submit(u), handleAudit_submit_log(u))
          /\ UNCHANGED envVars
    \/ \E o \in PingOutcomes :
          /\ InjectUpTo(o # "ok", MaxProbeFaults)
          /\ Logged(wakeUpServerBeforeAudit_settles(o),
                    wakeUpServerBeforeAudit_settles_log(o))
          /\ UNCHANGED frameLog
    \/ Logged(wakeUpServerBeforeAudit_delay, wakeUpServerBeforeAudit_delay_log)
       /\ UNCHANGED envVars
    \/ Logged(handleAudit_handlers, retryLogs) /\ UNCHANGED envVars
    \/ Logged(handleAudit_send, handleAudit_send_log) /\ UNCHANGED envVars
    \/ \E o \in PostOutcomes, r \in ResponseIds :
          /\ InjectUpTo(o # "ok", MaxProbeFaults)
          /\ Logged(sendAuditRequest_settles(o, r), sendAuditRequest_settles_log(o, r))
          /\ UNCHANGED frameLog
    \/ Logged(sendAuditRequest_retry, sendAuditRequest_retry_log) /\ UNCHANGED envVars
    \/ \E es \in timers : Logged(handleAudit_grace(es), retryLogs) /\ UNCHANGED envVars

SpecProbeLog == Init /\ [][NextProbeLog]_vars

\* The component is removed from the page while it is mounted.  Its effect
\* returns no cleanup function and handleAudit holds no handle to cancel:
\* no stream is closed, no timer cleared, no pending call aborted.
unmount ==
    /\ mounted
    /\ mounted' = FALSE
    /\ UNCHANGED <<ctlVars, logVars, envVars, jobChecks, pipeVars>>

\* SpecAbandon: one job, which the caller may abandon at any point by
\* unmounting the component.
NextAbandon ==
    \/ \E u \in StreamInputs :
          mounted /\ jobs < MaxProbeJobs /\ Control(handleAudit_submit(u))
    \/ JobNext
    \/ GraceNext
    \/ unmount

SpecAbandon == Init /\ [][NextAbandon]_vars

\* SpecPipeline: one job against a backend that is awake, with the pipeline
\* of section 4.5 behind its request and the stream of the job carrying the
\* events of that pipeline.
Backend(A) == A /\ UNCHANGED <<ctlVars, logVars, envVars, mounted, jobChecks>>

NextPipeline ==
    \/ \E u \in StreamInputs :
          /\ jobs < MaxProbeJobs
          /\ handleAudit_submit(u)
          /\ retryLogs' = handleAudit_submit_log(u)
          /\ frameLog' = <<>>
          /\ pipeline' = [job |-> pipeline.job, status |-> "idle", stage |-> 1,
                          attempt |-> 1, retried |-> FALSE, failures |-> 0,
                          delivered |-> 0]
          /\ emitted' = <<>>
          /\ UNCHANGED <<wakeUpLogs, mounted, jobChecks, faults>>
    \/ Logged(wakeUpServerBeforeAudit_settles("ok"),
              wakeUpServerBeforeAudit_settles_log("ok")) /\ UNCHANGED envVars
    \/ Logged(handleAudit_handlers, retryLogs) /\ UNCHANGED envVars
    \/ Logged(handleAudit_send, handleAudit_send_log) /\ UNCHANGED envVars
    \/ Backend(pipeline_start)
    \/ Backend(pipeline_stageSucceeds)
    \/ \E type \in RetryTypes, upstream \in UpstreamWaits, jitter \in Jitters :
          Backend(pipeline_stageFails(type, upstream, jitter))
    \/ pipeline_delivers
    \/ \E o \in {"ok", "http"} :
          /\ pipeline_responds(o)
          /\ Logged(sendAuditRequest_settles(o, "same"),
                    sendAuditRequest_settles_log(o, "same"))
          /\ UNCHANGED envVars
    \/ \E es \in timers : Logged(handleAudit_grace(es), retryLogs) /\ UNCHANGED envVars

SpecPipeline == Init /\ [][NextPipeline]_vars

\* SpecHandover: consecutive jobs against a backend that is awake, with
\* retryLogs, while the channels of the open streams deliver progress events.
HandoverFrames ==
    [json : {TRUE}, type : {"audit_started", "audit_completed"}, data : {TRUE}]

NextHandover ==
    \/ \E u \in StreamInputs :
          /\ jobs < MaxHandoverJobs
          /\ Logged(handleAudit_submit(u), handleAudit_submit_log(u))
          /\ frameLog' = <<>>
          /\ UNCHANGED faults
    \/ Logged(wakeUpServerBeforeAudit_settles("ok"),
              wakeUpServerBeforeAudit_settles_log("ok")) /\ UNCHANGED envVars
    \/ Logged(handleAudit_handlers, retryLogs) /\ UNCHANGED envVars
    \/ Logged(handleAudit_send, handleAudit_send_log) /\ UNCHANGED envVars
    \/ \E r \in ResponseIds :
          /\ Logged(sendAuditRequest_settles("ok", r), sendAuditRequest_settles_log("ok", r))
          /\ UNCHANGED envVars
    \/ \E es \in timers : Logged(handleAudit_grace(es), retryLogs) /\ UNCHANGED envVars
    \/ \E s \in 1..Len(streams), f \in HandoverFrames :
          /\ InjectUpTo(TRUE, MaxHandoverFrames)
          /\ eventSource_message(s, f)
          /\ UNCHANGED pipeVars

SpecHandover == Init /\ [][NextHandover]_vars

\* SpecBudgetFair: one job under every outcome of every network call, with
\* the liveness checks of the run counted; every pending fetch settles and
\* every pending timer fires.
\* A step issues the fetch of a liveness check when it enters the loop body of
\* wakeUpServerBeforeAudit: from outside the prober, or for the next attempt.
wakeUpServerBeforeAudit_fetches ==
    pc' = "ping" /\ (pc # "ping" \/ retryCount' # retryCount)

Counted(A) ==
    /\ A
    /\ jobChecks' = CASE ~wakeUpServerBeforeAudit_fetches -> jobChecks
                      [] pc = "idle" -> 1
                      [] OTHER -> jobChecks + 1
    /\ UNCHANGED <<logVars, envVars, mounted, pipeVars>>

BudgetNext ==
    \/ \E o \in PingOutcomes : Counted(wakeUpServerBeforeAudit_settles(o))
    \/ Counted(wakeUpServerBeforeAudit_delay)
    \/ Counted(handleAudit_awake)
    \/ Counted(handleAudit_handlers)
    \/ Counted(handleAudit_send)
    \/ \E o \in PostOutcomes, r \in ResponseIds : Counted(sendAuditRequest_settles(o, r))
    \/ Counted(sendAuditRequest_retry)

NextBudget ==
    \/ \E u \in StreamInputs : jobs < MaxProbeJobs /\ Counted(handleAudit_submit(u))
    \/ BudgetNext
    \/ GraceNext

SpecBudgetFair ==
    Init /\ [][NextBudget]_vars /\ WF_vars(BudgetNext) /\ WF_vars(GraceNext)

\* ------------------------------------------------------------------ claims
OpenStreams == {s \in 1..Len(streams) : streams[s].open}

\* C1: whatever the liveness checks return, one wakeUpServerBeforeAudit run
\* issues at most 8 of them and the startup run wakeUpServer at most 5.
C1_ProberAttemptBound == probeChecks <= 8 /\ wakeChecks <= 5

\* An exhausted pre-submission run and a startup run at its last attempt
C1_Witness == probeChecks = 8 /\ probeResult = "false" /\ wakeChecks = 5

\* C2: if every pending fetch settles and every timer fires, a running
\* wakeUpServerBeforeAudit call returns true or false, and the startup prober
\* reaches the point after which it schedules no further attempt.
C2_ProbersTerminate ==
    /\ (probeResult = "running") ~> (probeResult \in {"true", "false"})
    /\ <>[](wakePc \in {"hide_wait", "done"})

\* Both probers have ended after failing at every attempt
C2_Witness ==
    /\ probeResult = "false" /\ retryCount = MAX_RETRIES_AUDIT
    /\ wakePc = "done" /\ wakeRetryCount = MAX_RETRIES_STARTUP - 1

\* C3: one handleAudit run sends at most 3 submission requests, and every
\* request but the last one sent failed with a connection failure or timeout.
C3_SubmissionAttemptBound ==
    /\ Len(posts) <= 3
    /\ \A i \in 1..(Len(posts) - 1) : posts[i] \in {"failed_fetch", "abort"}

\* The third request of a job is in flight
C3_Witness == pc = "post" /\ Len(posts) = 3 /\ posts[3] = "pending"

\* C4: while a submission request is in flight, a stream under the request
\* id it carries is open.
C4_StreamOpenAtSubmission ==
    pc = "post" => \E s \in OpenStreams : streams[s].id = requestId

\* A resubmission in flight, after an earlier job left its grace timer behind
C4_Witness == pc = "post" /\ Len(posts) = 2 /\ jobs = 2 /\ eventSource \in OpenStreams

\* C5: every frame a channel delivers while its stream is open reaches an
\* onmessage handler.
C5_EveryFrameHeard == \A i \in 1..Len(frameLog) : frameLog[i].listener # "none"

\* A frame that does not decode: no JSON, or no data object where the
\* handler reads one
C6_Corrupt(f) == ~f.json \/ (f.type \in EventTypes \ {"connected"} /\ ~f.data)

\* C6: the delivery of a frame closes no stream; a frame that fails to decode
\* leaves the retry log as it was, and a well-formed frame of a known type
\* appends its own entries (two for the retry events, one otherwise) to it.
C6_CorruptFrameDiscarded ==
    [][ Len(frameLog') = Len(frameLog) + 1 =>
          LET d == frameLog'[Len(frameLog')]
              n == Len(retryLogs)
          IN /\ streams' = streams
             /\ C6_Corrupt(d.frame) => retryLogs' = retryLogs
             /\ ( /\ ~C6_Corrupt(d.frame)
                  /\ d.listener = "original"
                  /\ d.frame.type \in EventTypes )
                => /\ SubSeq(retryLogs', 1, n) = retryLogs
                   /\ Len(retryLogs') =
                        IF d.frame.type \in {"quota_exhausted_retry", "rate_limit_retry"}
                        THEN n + 2 ELSE n + 1 ]_vars

\* A corrupt frame and then a connected frame on the same listening stream:
\* the log ends with the one entry of the connected frame, the stream is open
C6_Witness ==
    /\ Len(frameLog) = 2
    /\ C6_Corrupt(frameLog[1].frame)
    /\ frameLog[2].frame = [json |-> TRUE, type |-> "connected", data |-> FALSE]
    /\ frameLog[1].stream = frameLog[2].stream
    /\ frameLog[1].listener = "original"
    /\ frameLog[2].listener = "original"
    /\ frameLog[2].stream \in OpenStreams
    /\ retryLogs # <<>>
    /\ retryLogs[Len(retryLogs)].msg = "SSE connection established"
    /\ Cardinality({i \in 1..Len(retryLogs) : retryLogs[i].type = "success"}) = 3

\* C7: no two open streams have the same correlation id.
C7_OneStreamPerId ==
    \A s, t \in OpenStreams : streams[s].id = streams[t].id => s = t

\* Two streams of different jobs are open at once
C7_Witness == Cardinality(OpenStreams) >= 2

\* C8: the stream of a job's client-generated id and the stream of its
\* server-assigned id are never open at the same time.
C8_ReconcileClosesFirst ==
    \A s, t \in OpenStreams, j \in 1..jobs :
        ~(streams[s].id = randomUUID(j) /\ streams[t].id = backendUUID(j))

\* After a reconciliation: the old stream closed, the new one open
C8_Witness ==
    /\ reconCount = 1
    /\ eventSource \in OpenStreams
    /\ streams[eventSource].id = backendUUID(jobs)
    /\ \E s \in 1..Len(streams) : streams[s].id = randomUUID(jobs) /\ ~streams[s].open

\* C9: within a run the request id changes only when it is generated and,
\* at most once, when a successful response carries an id that differs from
\* it; no failed attempt and no retry changes it.
C9_IdSupersededOnce ==
    /\ [][ (requestId' # requestId /\ pc # "idle") =>
             \/ requestId = NoId /\ requestId' = randomUUID(jobs)
             \/ /\ pc = "post"
                /\ posts'[Len(posts')] = "ok"
                /\ result'.set
                /\ result'.request_id \notin {NoId, requestId}
                /\ requestId' = result'.request_id
                /\ requestId = randomUUID(jobs)
                /\ reconCount = 0 ]_vars
    /\ [](reconCount <= 1)

\* A job whose id was superseded by the id of the response
C9_Witness ==
    /\ reconCount = 1 /\ requestId = backendUUID(jobs)
    /\ Len(posts) = 2 /\ posts[2] = "ok"

\* C10: a successful response with no request id, or with the id the request
\* carried, changes neither the streams and their handlers nor the request
\* id, the job's eventSource and the sseConnection state.
C10_NoReconciliationFrame ==
    [][ ( /\ pc = "post"
          /\ posts'[Len(posts')] = "ok"
          /\ result'.request_id \in {NoId, requestId} )
        => /\ streams' = streams
           /\ requestId' = requestId
           /\ eventSource' = eventSource
           /\ sseConnection' = sseConnection ]_vars

\* A job that succeeded with the id it sent echoed back; its stream is open
C10_Witness ==
    /\ pc = "idle" /\ posts # <<>> /\ posts[Len(posts)] = "ok"
    /\ result.set /\ result.request_id = requestId
    /\ reconCount = 0
    /\ eventSource \in OpenStreams
    /\ streams[eventSource].onmessage = "original"

\* A step in which a frame is delivered, and the record of that delivery
C11_FrameStep == Len(frameLog') = Len(frameLog) + 1
C11_Delivered == frameLog'[Len(frameLog')]

\* A step in which a channel reports an error: the environment injects, no
\* frame is delivered and no fetch settles
C11_ErrorStep == faults' = faults + 1 /\ frameLog' = frameLog /\ ctlVars' = ctlVars

\* C11: the handlers of the reconciled stream log whenever the handlers
\* assigned first would: a frame delivered to the reconciled stream appends
\* to the retry log exactly if the original onmessage appends for it, and an
\* error of the channel is logged when the reconciled stream is the open one.
C11_SinkReboundEquivalently ==
    [][ /\ (C11_FrameStep /\ C11_Delivered.listener = "reconciled")
           => (retryLogs' # retryLogs <=> onmessage_original(C11_Delivered.frame) # <<>>)
        /\ ( /\ C11_ErrorStep
             /\ OpenStreams # {}
             /\ \A s \in OpenStreams : streams[s].onmessage = "reconciled" )
           => retryLogs' # retryLogs ]_vars

\* A step in which the fetch of a liveness check settles, in the
\* pre-submission prober and in the startup prober
ProbeSettles == pc = "ping" /\ <<pc, retryCount>>' # <<pc, retryCount>>
WakeSettles == wakePc = "ping" /\ wakePc' # "ping"

\* The waits the code's comment lists: 2s, 4s, 8s, 16s, 30s (capped at 30s),
\* by zero-based attempt index
C12_Backoff(n) == <<2000, 4000, 8000, 16000, 30000, 30000, 30000, 30000>>[n + 1]

\* A wait of the prober ends with the next attempt
C12_WaitThenAttempt ==
    /\ (pc = "ping_wait" /\ pc' # pc)
       => (pc' = "ping" /\ retryCount' = retryCount + 1 /\ probeChecks' = probeChecks + 1)
    /\ (wakePc = "backoff" /\ wakePc' # wakePc)
       => (wakePc' = "ping" /\ wakeRetryCount' = wakeRetryCount + 1
           /\ wakeChecks' = wakeChecks + 1)

C13_Healthy == {"ok", "badjson"}

\* C13: a run ends Ready at the first attempt answered with a healthy status
\* and issues no attempt after it; a run that ends Ready ended on such an
\* attempt, and a run that ends Exhausted has seen none.
C13_ReadyAtFirstHealthy ==
    [][ /\ (ProbeSettles /\ probeLast' \in C13_Healthy)
           => (probeResult' = "true" /\ probeChecks' = probeChecks)
        /\ (ProbeSettles /\ probeResult' = "true") => probeLast' \in C13_Healthy
        /\ (ProbeSettles /\ probeResult' = "false") => probeLast' \notin C13_Healthy
        /\ (WakeSettles /\ wakeLast' \in C13_Healthy)
           => (wakePc' = "hide_wait" /\ wakeChecks' = wakeChecks) ]_vars

C15_ProbeBeforeEverySubmission ==
    /\ [](pc = "post" => probeResult \in {"true", "false"})
    /\ [][ /\ (Len(posts') = Len(posts) + 1)
              => /\ probeResult \in {"true", "false"}
                 /\ probeChecks >= 1
                 /\ pc = IF posts = <<>> THEN "sse_wait2" ELSE "retry_wait"
                 /\ delay = IF posts = <<>> THEN 500 ELSE 2000
           /\ (pc = "post" /\ pc' \notin {"post", "idle"})
              => /\ pc' = "ping"
                 /\ probeResult' = "running"
                 /\ probeChecks' = 1
                 /\ retryCount' = 0
           /\ (pc = "ping" /\ probeCtx = "retry" /\ pc' # "ping")
              => pc' \in {"ping_wait", "retry_wait"}
           /\ (pc = "retry_wait" /\ pc' # pc) => pc' = "post" ]_vars

\* A resubmission in flight whose prober run took two liveness checks
C15_Witness ==
    /\ pc = "post" /\ Len(posts) = 2 /\ probeCtx = "retry"
    /\ probeChecks = 2 /\ probeResult = "true"

\* C16: a submit event whose target normalizes to the empty value sets the
\* error and loading = false and ends the run at once: no liveness check is
\* issued, no stream is opened or closed, no submission request is sent.
C16_EmptyTargetRejected ==
    [][ (jobs' = jobs + 1 /\ normalizedUrl' = <<>>)
        => /\ error' = "invalid_url"
           /\ loading' = FALSE
           /\ result' = null
           /\ pc' = "idle"
           /\ UNCHANGED <<streams, timers, sseConnection, posts, probeChecks,
                          probeResult, requestId, eventSource>> ]_vars

\* A first job that was rejected: nothing was probed, opened or sent
C16_Witness ==
    /\ jobs = 1 /\ pc = "idle" /\ error = "invalid_url" /\ ~loading
    /\ streams = <<>> /\ posts = <<>> /\ probeChecks = 0 /\ probeResult = "none"

\* C17: a submission request answered with a failure status ends the job with
\* that error, at whatever attempt: the step sends no further request and
\* starts no prober run.
C17_RejectionNotRetried ==
    [][ (pc = "post" /\ posts'[Len(posts')] = "http")
        => /\ pc' = "idle"
           /\ error' = "message"
           /\ loading' = FALSE
           /\ result' = null
           /\ Len(posts') = Len(posts)
           /\ UNCHANGED <<probeChecks, probeResult, probeLast>> ]_vars

\* A job whose second request was answered with a failure status
C17_Witness ==
    /\ pc = "idle" /\ posts = <<"failed_fetch", "http">>
    /\ error = "message" /\ ~loading /\ probeChecks = 1

\* The failures C18 names: network, timeout, http-error
C18_Failures == {"failed_fetch", "network_error", "abort", "http"}

C19_Classified(o) ==
    CASE o = "abort" -> "timed_out"
      [] o \in {"failed_fetch", "network_error"} -> "failed_to_connect"
      [] o \in {"http", "badjson"} -> "message"
      [] OTHER -> "null"

\* C19: after a handleAudit run has ended loading is false and exactly one of
\* result and error is set: result is the body of the response to the last
\* request, which succeeded, or error is the rejection of the target or the
\* classified failure of the last request.
C19_ResultXorError ==
    (pc = "idle" /\ jobs > 0)
    => /\ ~loading
       /\ \/ /\ result.set
             /\ error = "null"
             /\ posts # <<>>
             /\ posts[Len(posts)] = "ok"
             /\ result.request_id \in {NoId, requestId}
          \/ /\ result = null
             /\ error # "null"
             /\ \/ error = "invalid_url"
                \/ /\ posts # <<>>
                   /\ error = C19_Classified(posts[Len(posts)])

\* A job that ended with the body of a reconciling response as its result
C19_Witness ==
    /\ pc = "idle" /\ jobs = 2 /\ ~loading
    /\ result = Body(backendUUID(2)) /\ error = "null" /\ reconCount = 1

\* C20: the stream of a job that has ended stays open while its grace timer
\* is pending, after a failure as after a success.
C20_OpenThroughGrace == \A es \in timers : es \in OpenStreams

\* C21: an error of a channel appends the entry of onerror to the retry log
\* and closes no stream, and the delivery of a frame closes no stream.
C21_ChannelErrorLogged ==
    [][ /\ C11_ErrorStep
           => /\ retryLogs' = Append(retryLogs,
                                     Entry("SSE connection error", "warning", 0, 0))
              /\ streams' = streams
        /\ C11_FrameStep => streams' = streams ]_vars

\* The messages of the entries the onmessage handlers append
C22_FrameMsgs ==
    {"SSE connection established", "Starting SEO audit for", "quota_exhausted_retry",
     "rate_limit_retry", "Retry - Waiting (source + jitter)", "Retry - Waiting",
     "retry_complete", "audit_completed", "audit_error"}
C22_IsFrameEntry(e) == e.msg \in C22_FrameMsgs

\* The entries the listener of a recorded delivery appends for its frame
C22_Entries(d) ==
    CASE d.listener = "original" -> onmessage_original(d.frame)
      [] d.listener = "reconciled" -> onmessage_reconciled(d.frame)
      [] OTHER -> <<>>

\* The entries of the deliveries of fl, in the order of delivery
RECURSIVE C22_Expected(_)
C22_Expected(fl) ==
    IF fl = <<>> THEN <<>>
    ELSE C22_Expected(SubSeq(fl, 1, Len(fl) - 1)) \o C22_Entries(fl[Len(fl)])

\* C22: the entries of the retry log that come from frames are the entries
\* of the delivered frames in the order of delivery, whatever the prober and
\* the submission retries appended in between.
C22_FramesInOrder ==
    SelectSeq(retryLogs, C22_IsFrameEntry) = C22_Expected(frameLog)

\* Two frames with an entry of the submission between their entries
C22_Witness ==
    /\ Len(frameLog) = 2
    /\ frameLog[1].frame.type = "connected" /\ frameLog[1].listener = "original"
    /\ frameLog[2].frame.type = "audit_started" /\ frameLog[2].listener = "original"
    /\ frameLog[2].frame.data
    /\ \E i, j, k \in 1..Len(retryLogs) :
          /\ i < j /\ j < k
          /\ retryLogs[i].msg = "SSE connection established"
          /\ retryLogs[j].msg = "Sending audit request to backend"
          /\ retryLogs[k].msg = "Starting SEO audit for"

\* How often entry e occurs in log
C23_Count(log, e) == Cardinality({i \in 1..Len(log) : log[i] = e})

\* C23: a frame that was delivered to a stream before and is delivered to it
\* again appends its entries again: each of them occurs once more in the log.
C23_NotDeduplicated ==
    [][ ( /\ C11_FrameStep
          /\ C11_Delivered.listener # "none"
          /\ \E i \in 1..Len(frameLog) : frameLog[i] = C11_Delivered )
        => LET es == C22_Entries(C11_Delivered) IN
           /\ retryLogs' = retryLogs \o es
           /\ \A k \in 1..Len(es) :
                 /\ C23_Count(retryLogs, es[k]) >= 1
                 /\ C23_Count(retryLogs', es[k]) = C23_Count(retryLogs, es[k]) + 1 ]_vars

\* The same audit_started frame delivered twice, two entries in the log
C23_Witness ==
    /\ Len(frameLog) = 2
    /\ frameLog[1] = frameLog[2]
    /\ frameLog[1].listener = "original"
    /\ frameLog[1].frame = [json |-> TRUE, type |-> "audit_started", data |-> TRUE]
    /\ C23_Count(retryLogs, Entry("Starting SEO audit for", "info", 0, 0)) = 2

\* C24: every step that is not the submit event of a run leaves the retry
\* log as it was or appends to it.
C24_RetryLogAppendOnly ==
    [][ jobs' = jobs
        => /\ Len(retryLogs') >= Len(retryLogs)
           /\ SubSeq(retryLogs', 1, Len(retryLogs)) = retryLogs ]_vars

\* A finished job whose log has entries of the prober, of a frame and of a
\* retried submission
C24_Witness ==
    /\ pc = "idle" /\ Len(posts) = 2 /\ Len(frameLog) = 1
    /\ \E i, j, k \in 1..Len(retryLogs) :
          /\ i < j /\ j < k
          /\ retryLogs[i].msg = "Pinging server"
          /\ retryLogs[j].msg \in C22_FrameMsgs
          /\ retryLogs[k].msg = "Retrying after waking up server again"

\* C25: for every attempt index the delay lies between 0 and 30000 ms, is
\* min(2000 * 2^n, 30000) and does not decrease with the index; the waits the
\* probers are in lie in that range.
C25_DelayBounded ==
    /\ \A n \in 0..MaxIndex :
          /\ BackoffDelay(n) >= 0
          /\ BackoffDelay(n) <= 30000
          /\ BackoffDelay(n) = Min(2000 * Pow2(n), 30000)
          /\ BackoffDelay(n) <= BackoffDelay(n + 1)
    /\ pc = "ping_wait" => (delay >= 2000 /\ delay <= 30000)
    /\ wakePc = "backoff" => (wakeDelay >= 2000 /\ wakeDelay <= 30000)

\* The pre-submission prober waits at the first capped index, the startup
\* prober at the first index
C25_Witness ==
    /\ pc = "ping_wait" /\ retryCount = 4 /\ delay = 30000
    /\ wakePc = "backoff" /\ wakeRetryCount = 0 /\ wakeDelay = 2000

\* C26 as stated: the wait carries a jitter term, so that a prober whose
\* attempt fails may wait a duration other than the capped exponential delay
\* of its index.
C26_JitterPossible ==
    (pc = "ping" /\ retryCount < MAX_RETRIES_AUDIT - 1)
    => ENABLED ( /\ NextProbers
                 /\ pc' = "ping_wait"
                 /\ delay' # C12_Backoff(retryCount) )

\* C26 as amended: the wait between probe attempts is the capped exponential
\* delay of the attempt index and nothing else, so two prober runs that fail
\* at the same attempt index wait the same duration.
C26_WaitIsDeterministic ==
    /\ [][ /\ (pc' = "ping_wait" /\ pc # "ping_wait")
              => delay' = C12_Backoff(retryCount)
           /\ (wakePc' = "backoff" /\ wakePc # "backoff")
              => wakeDelay' = C12_Backoff(wakeRetryCount) ]_vars
    /\ []( (pc = "ping_wait" /\ wakePc = "backoff" /\ retryCount = wakeRetryCount)
           => delay = wakeDelay )

\* Both probers wait after failing at the same attempt index
C26_Witness ==
    /\ pc = "ping_wait" /\ wakePc = "backoff"
    /\ retryCount = 2 /\ wakeRetryCount = 2
    /\ delay = 8000 /\ wakeDelay = 8000

\* A step that issues a liveness check of wakeUpServerBeforeAudit
C27_AttemptIssued == pc' = "ping" /\ (pc # "ping" \/ retryCount' # retryCount)
\* A step that sends a submission request
C27_RequestSent == Len(posts') = Len(posts) + 1

\* Every attempt is logged when it is issued, and every settled liveness
\* check is logged with its classification
C27_AttemptsLogged ==
    /\ C27_AttemptIssued
       => retryLogs'[Len(retryLogs')] = Entry("Pinging server", "info", retryCount' + 1, 0)
    /\ ProbeSettles
       => /\ Len(retryLogs') > Len(retryLogs)
          /\ retryLogs'[Len(retryLogs) + 1].type =
                CASE probeLast' = "ok" -> "success"
                  [] probeLast' = "status" -> "warning"
                  [] OTHER -> "error"

\* C27 as stated: when a retried liveness check is issued or a submission
\* request is resent, the log holds an entry that carries the index of that
\* attempt and a wait duration; every attempt and its classification is
\* logged.
C27_RetryLoggedWithIndexAndWait ==
    [][ /\ (C27_AttemptIssued /\ retryCount' >= 1)
           => \E i \in 1..Len(retryLogs') :
                 retryLogs'[i].n = retryCount' + 1 /\ retryLogs'[i].d > 0
        /\ (C27_RequestSent /\ posts # <<>>)
           => \E i \in 1..Len(retryLogs') :
                 retryLogs'[i].n = Len(posts') /\ retryLogs'[i].d > 0
        /\ C27_AttemptsLogged ]_vars

\* C27 as amended: the wait after a hard failure is logged with its duration
\* when it starts, every liveness check and every submission request is
\* logged with its attempt index when it is issued, a submission retry is
\* announced with the index of the coming attempt, and no entry carries both
\* an index and a duration; every settled check is logged with its
\* classification.
C27_RetriesLogged ==
    [][ /\ (ProbeSettles /\ pc' = "ping_wait")
           => retryLogs'[Len(retryLogs')] =
                 Entry("Retrying in", "info", 0, C12_Backoff(retryCount))
        /\ (pc = "post" /\ pc' = "ping")
           => \E i \in (Len(retryLogs) + 1)..Len(retryLogs') :
                 retryLogs'[i] = Entry("Retrying after waking up server again",
                                       "warning", Len(posts) + 1, 0)
        /\ C27_RequestSent
           => retryLogs'[Len(retryLogs')] =
                 Entry("Sending audit request to backend", "info", Len(posts'), 0)
        /\ \A i \in 1..Len(retryLogs') : ~(retryLogs'[i].n > 0 /\ retryLogs'[i].d > 0)
        /\ C27_AttemptsLogged ]_vars

\* A resubmission in flight after a prober run that waited twice
C27_Witness ==
    /\ pc = "post" /\ Len(posts) = 2
    /\ retryLogs[Len(retryLogs)] = Entry("Sending audit request to backend", "info", 2, 0)
    /\ \E i, j, k \in 1..Len(retryLogs) :
          /\ i < j /\ j < k
          /\ retryLogs[i] = Entry("Retrying in", "info", 0, 4000)
          /\ retryLogs[j] = Entry("Pinging server", "info", 3, 0)
          /\ retryLogs[k] = Entry("Retrying after waking up server again", "warning", 2, 0)

\* C28: once the caller has abandoned the job no stream is open: the open
\* stream was closed and nothing opened one afterwards.
C28_AbandonClosesStream == ~mounted => OpenStreams = {}

\* The status of the job: 0 pending, 1 awaiting readiness (a prober run or
\* the wait after it), 2 the stream is open, 3 a request is in flight,
\* 4 completed or failed
C29_Status ==
    CASE pc \in {"ping", "ping_wait", "awake_wait", "retry_wait"} -> 1
      [] pc \in {"sse_wait1", "sse_wait2"} -> 2
      [] pc = "post" -> 3
      [] OTHER -> IF jobs = 0 THEN 0 ELSE 4

C30_IsPing(e) == e.msg = "Pinging server"
C30_IsWait(e) == e.msg = "Retrying in"
C30_IsFail(e) == e.msg = "Wake-up attempt failed"
C30_IsPingOrWait(e) == C30_IsPing(e) \/ C30_IsWait(e)

\* C30: when the first prober run of a job returned true after k < 5 checks
\* that failed with a network error, the log shows attempts 1..k+1 in that
\* order, one wait between each two of them, the waits strictly increasing,
\* and the job has gone on to open its stream.
C30_FailThenReady ==
    LET pings == SelectSeq(retryLogs, C30_IsPing)
        waits == SelectSeq(retryLogs, C30_IsWait)
        fails == SelectSeq(retryLogs, C30_IsFail)
        both == SelectSeq(retryLogs, C30_IsPingOrWait)
    IN ( /\ pc # "idle" /\ probeCtx = "pre" /\ probeResult = "true"
         /\ Len(fails) < 5
         /\ Len(pings) = Len(fails) + 1 )
       => /\ \A i \in 1..Len(pings) : pings[i].n = i
          /\ Len(waits) = Len(fails)
          /\ \A i \in 1..(Len(waits) - 1) : waits[i].d < waits[i + 1].d
          /\ \A i \in 1..Len(both) : C30_IsPing(both[i]) <=> (i % 2 = 1)
          /\ pc \in {"sse_wait1", "sse_wait2", "post"}
          /\ eventSource \in OpenStreams
          /\ error = "null"

\* Four failed checks, the fifth healthy, the first request in flight
C30_Witness ==
    LET waits == SelectSeq(retryLogs, C30_IsWait)
        fails == SelectSeq(retryLogs, C30_IsFail)
    IN /\ pc = "post" /\ probeCtx = "pre" /\ probeResult = "true"
       /\ probeChecks = 5 /\ Len(fails) = 4
       /\ Len(waits) = 4 /\ waits[4].d = 16000

\* C31: when the first submission request of a job times out and the second
\* succeeds, the job has sent exactly two requests, the one reconciliation
\* check is made against the id of the second response (a stream is reopened
\* exactly when that id is present and differs), and the job ends with the
\* result set and no error.
C31_TimeoutThenSuccess ==
    [][ (pc = "post" /\ posts' = <<"abort", "ok">>)
        => /\ pc' = "idle" /\ ~loading'
           /\ Len(bodies) = 2
           /\ result'.set /\ error' = "null"
           /\ reconCount = 0 /\ reconCount' <= 1
           /\ reconCount' = 1 <=> result'.request_id \notin {NoId, requestId}
           /\ reconCount' = 1
              => /\ requestId' = result'.request_id
                 /\ Len(streams') = Len(streams) + 1
                 /\ streams'[eventSource'].id = requestId'
           /\ reconCount' = 0 => UNCHANGED <<requestId, streams, eventSource>> ]_vars

\* Such a job has ended after reconciling with the id of the second response
C31_Witness ==
    /\ pc = "idle" /\ posts = <<"abort", "ok">>
    /\ result.set /\ error = "null" /\ reconCount = 1
    /\ requestId = backendUUID(jobs) /\ result.request_id = requestId

\* The wait a retry event or its log line must carry, from its parts
C32_Total(from, jitter) == (IF from > 0 THEN from ELSE 600) + jitter

C33_Emits ==
    IF Len(emitted') > Len(emitted)
    THEN SubSeq(emitted', Len(emitted) + 1, Len(emitted')) ELSE <<>>
C33_EmitsType(T) == \E i \in 1..Len(C33_Emits) : C33_Emits[i].type \in T
\* A step in which the upstream call of the running stage fails recoverably
C33_StageFails == pipeline'.failures = pipeline.failures + 1
\* A step in which the stream of the job delivers an event of the pipeline
C33_Delivers(T) ==
    /\ pipeline'.delivered = pipeline.delivered + 1
    /\ emitted[pipeline'.delivered].type \in T

C34_LogFromOwnStreams ==
    pc # "idle"
    => \A i \in 1..Len(frameLog) :
          C22_Entries(frameLog[i]) # <<>>
          => streams[frameLog[i].stream].id[2] = jobs

\* C35: every open stream is the stream of the running job or has its close
\* timer pending, and whenever a stream is open there comes a moment at which
\* no stream is open: no stream stays open forever.
C35_EveryStreamClosed ==
    /\ [](\A s \in OpenStreams : (pc # "idle" /\ eventSource = s) \/ s \in timers)
    /\ [](OpenStreams # {} => <>(OpenStreams = {}))

\* Two jobs have run, the first one reconciled, and every stream they opened
\* is closed
C35_Witness ==
    /\ jobs = 2 /\ pc = "idle" /\ timers = {}
    /\ Len(streams) = 3 /\ OpenStreams = {}
    /\ streams[2].id = backendUUID(1)

\* C36: loading is true exactly while a handleAudit run is in flight, and a
\* run starts only when loading is false and no run is in flight.
C36_OneJobInFlight ==
    /\ [](loading <=> pc # "idle")
    /\ [][jobs' # jobs => (~loading /\ pc = "idle")]_vars

\* The third job is in flight, waiting to retry its request
C36_Witness ==
    /\ jobs = 3 /\ loading /\ pc = "retry_wait" /\ Len(posts) = 2
    /\ eventSource \in OpenStreams

\* C37: a handleAudit run issues at most 24 liveness checks and sends at most
\* 3 requests, and when every network call returns, fails or times out it
\* ends, with the result set or with an error.
C37_RunTerminates ==
    /\ [](jobChecks <= 24 /\ Len(posts) <= 3)
    /\ (pc # "idle") ~> (pc = "idle" /\ ~loading /\ (result.set <=> error = "null"))

\* A run that ended in failure after three exhausted prober runs
C37_Witness ==
    /\ pc = "idle" /\ jobChecks = 24 /\ Len(posts) = 3
    /\ error = "timed_out" /\ ~result.set

\* C38: every request the running job has sent carries the job's normalized
\* target and the id the job generated, which is the id of the stream the job
\* opened and still holds open.
C38_SameBodyOnRetry ==
    \A i \in 1..Len(bodies) :
       /\ bodies[i] = bodies[1]
       /\ bodies[i].url = normalizedUrl /\ ~handleAudit_rejects(bodies[i].url)
       /\ bodies[i].request_id = randomUUID(jobs)
       /\ eventSource \in OpenStreams
       /\ streams[eventSource].id = bodies[i].request_id

\* The third request of the second job is in flight
C38_Witness ==
    /\ jobs = 2 /\ pc = "post" /\ Len(bodies) = 3
    /\ bodies[3].request_id = randomUUID(2) /\ posts[2] = "abort"

\* C39: serverWakingUp is false only when the startup prober has made its
\* last attempt and none is scheduled, and whatever the liveness checks
\* answer the prober gets there.
C39_StartupHides ==
    /\ [](~serverWakingUp => wakePc = "done")
    /\ <>[](~serverWakingUp /\ wakePc = "done")

\* The indicator is hidden after five failed attempts
C39_Witness == ~serverWakingUp /\ wakePc = "done" /\ wakeChecks = 5

\* C40: while the stream the running job opened is open, the sseConnection
\* state refers to it.
C40_SseConnectionTracks ==
    (pc # "idle" /\ eventSource \in OpenStreams) => sseConnection = eventSource

====
